---------------------------- MODULE Spec2Model ----------------------------
(***************************************************************************)
(* Model of the distributed training orchestrator of train.py: WorldSize  *)
(* SPMD processes, each running train(gpu, args).  Every process owns its  *)
(* replica, its optimizer, its scheduler and its random generators; the    *)
(* processes meet only in collectives (the gradient all-reduce of every    *)
(* loss.backward(), the validation barrier and the validation all-reduces).*)
(*                                                                         *)
(* Scales.  Probabilities (restart_prob, the uniform draws) are in tenths: *)
(* 5 stands for 0.5.  Poses are integers, the group (Z,+) standing for     *)
(* SE3: the inverse is negation and the identity is 0.  Gradients are in   *)
(* units of 1/WorldSize so that the mean DDP forms is an integer.  The     *)
(* batch dimension is elided (every statement acts alike on each element). *)
(***************************************************************************)
EXTENDS Integers, Sequences, FiniteSets, TLC

\* ------------------------------------------------------------------ bounds
WorldSize == 2          \* args.world_size (number of spawned processes)
MaxSteps == 4           \* largest args.steps explored
ValPeriod == 2          \* stands for the 5000 of the validation test
ValCap == 2             \* stands for the 500 of the validation break
CkptPeriod == 2         \* stands for the 10000 of the checkpoint test
MaxValLen == 3          \* largest number of batches the validation loader yields
TrainLen == 2           \* batches per epoch of one process's training loader
MaxDraws == 5           \* draws explored from one restart-decision generator
ClipNorm == 3           \* args.clip, in gradient units
MaxN == 9               \* largest frame count explored by the graph builder
MaxResumes == 1         \* launches with --ckpt explored after the first launch

\* ------------------------------------------------------- program constants
NFrames == 7            \* args.n_frames
FixedP == 2             \* fixedp=2, the anchor count given to the model
WindowRadius == 2       \* abs(i-j) <= 2
BaseSeed == 12345       \* np.random.default_rng(12345)

Procs == 0..(WorldSize - 1)
Frames == 0..(NFrames - 1)
RestartProbs == {-5, 0, 5}
DrawVals == {2, 5}
StepChoices == {1, MaxSteps}

VARIABLES
    cfg,          \* args: [restart_prob, steps]
    valLen,       \* <<n>>: one pass over val_loader yields n batches, on every
                  \* rank alike; <<>> until a pass first iterates the loader
    stream,       \* per seed, the prefix of the generator's output drawn so far
    calls,        \* per process, the collectives it has entered, in order
    pc,           \* per process, its position in train()
    rng,          \* per process, the restart-decision generator [seed, pos]
    r,            \* per process, the local r of the restart loop
    total_steps,  \* per process, total_steps
    loader,       \* per process, [pos, epochs, sampler_epoch, served] of train_loader
    batch,        \* per process, the sample id of the current training item
    ts,           \* per process, gradient, parameters, optimizer and scheduler
                  \* call counts, and the operations of the current outer step
    Ps,           \* per process, ground-truth poses (c2w) of the current item
    Gs,           \* per process, the warm-start pose estimate
    disp0,        \* per process, the warm-start inverse depth
    graph,        \* per process, the frame graph of the current training item
    coin,         \* per process, the last graph-mode coin flip
    est,          \* per process, the model output of the round in flight
    draws,        \* per process, the draws of the current outer step
    roundGrads,   \* per process, the synchronized gradients of the current step
    rounds,       \* per process, the round count of every finished round loop
    lossBound,    \* per process, whether geo_metrics/loss are bound
    mode,         \* per process, "train" or "eval"
    val,          \* per process, the locals of the validation pass
    valHist,      \* per process, the steps at which it entered validation
    wandbLog,     \* the records rank 0 has emitted
    ckpts,        \* the checkpoints written
    gN, gi, gmode, ggraph,  \* the window-graph builder run on its own
    run,          \* the number of launches that came before this one
    args_ckpt,    \* args.ckpt: <<>> for None, else <<path>>
    destroyed     \* per process, its calls of dist.destroy_process_group()

trainVars == <<rng, r, loader, batch, draws, rounds, lossBound>>
optVars == <<ts, roundGrads, total_steps>>
poseVars == <<Ps, Gs, disp0, est>>
graphVars == <<graph, coin>>
valVars == <<val, valHist, mode>>
outVars == <<wandbLog, ckpts>>
builderVars == <<gN, gi, gmode, ggraph>>
runVars == <<run, args_ckpt, destroyed>>
vars == <<cfg, valLen, stream, calls, pc, trainVars, optVars, poseVars,
          graphVars, valVars, outVars, builderVars, runVars>>


\* ------------------------------------------------------------ pure helpers
Abs(x) == IF x < 0 THEN -x ELSE x

RECURSIVE SumSeq(_)
SumSeq(s) == IF s = <<>> THEN 0 ELSE Head(s) + SumSeq(Tail(s))

Range(s) == {s[k] : k \in DOMAIN s}

\* faulty variant: the generator seeded with the rank
RngSeedByRank(gpu) == BaseSeed + gpu

\* rng = np.random.default_rng(12345): the seed every rank gives its generator.
RngSeed(gpu) == BaseSeed

SeedSet == {RngSeed(g) : g \in Procs}

\* faulty variant: the loop test with <=
RestartTestLeq(rv, p) == rv <= p

\* faulty variant: the first round run whatever restart_prob is
RestartTestFirstRound(rv, p) == rv = 0 \/ rv < p

\* while r < args.restart_prob
RestartTest(rv, p) == rv < p

\* SE3(poses).inv(): w2c -> c2w.
SE3Inv(poses) == [i \in DOMAIN poses |-> -poses[i]]

\* SE3.IdentityLike(Ps)
IdentityLike(P) == [i \in DOMAIN P |-> 0]

\* faulty variant: every frame initialized from the pose of frame 0
InitPosesAllFirst(G0, P) == [i \in DOMAIN G0 |-> P[0]]

\* faulty variant: the identity estimate left as it is
InitPosesIdentity(G0, P) == G0

\* Gs.data[:,0] = Ps.data[:,0].clone(); Gs.data[:,1:] = Ps.data[:,[1]].clone()
InitPoses(G0, P) ==
    [i \in DOMAIN G0 |-> IF i = 0 THEN P[0] ELSE IF i >= 1 THEN P[1] ELSE G0[i]]

\* torch.ones_like(disps[:,:,3::8,3::8])
InitDisp == 1

\* faulty variant: the comprehension without the i != j test
RECURSIVE TrainRowSelfLoop(_, _, _)
TrainRowSelfLoop(i, j, N) ==
    IF j >= N THEN <<>>
    ELSE (IF Abs(i - j) <= WindowRadius THEN <<j>> ELSE <<>>)
         \o TrainRowSelfLoop(i, j + 1, N)

\* [j for j in range(N) if i!=j and abs(i-j) <= 2], training builder
RECURSIVE TrainRow(_, _, _)
TrainRow(i, j, N) ==
    IF j >= N THEN <<>>
    ELSE (IF i # j /\ Abs(i - j) <= WindowRadius THEN <<j>> ELSE <<>>)
         \o TrainRow(i, j + 1, N)

TrainWindowGraph(N) == [i \in 0..(N - 1) |-> TrainRow(i, 0, N)]

\* the same comprehension, validation builder
RECURSIVE ValRow(_, _, _)
ValRow(i, j, N) ==
    IF j >= N THEN <<>>
    ELSE (IF i # j /\ Abs(i - j) <= WindowRadius THEN <<j>> ELSE <<>>)
         \o ValRow(i, j + 1, N)

ValWindowGraph(N) == [i \in 0..(N - 1) |-> ValRow(i, 0, N)]

\* build_frame_graph(poses, disps, intrinsics, num=args.edges): the external
\* co-visibility scorer; a sparse adjacency it may return.
HeuristicGraphs(N) ==
    { [i \in 0..(N - 1) |-> IF i < N - 1 THEN <<i + 1>> ELSE <<>>] }

\* model(Gs, ..., fixedp=2): the last pose and inverse-depth estimate; the
\* first fixedp poses come back unchanged, the others move towards P.
ModelOutput(G, d0, P, fixedp) ==
    [poses |-> [i \in DOMAIN G |->
                  IF i < fixedp THEN G[i]
                  ELSE IF G[i] > P[i] THEN G[i] - 1
                  ELSE IF G[i] < P[i] THEN G[i] + 1 ELSE G[i]],
     disp |-> d0 + 1]

\* the local gradient of the k-th round on sample s, before synchronization
LocalGrad(s, k) == 1 + ((s + k) % 2)

\* torch.nn.utils.clip_grad_norm_(model.parameters(), args.clip)
ClipGradNorm(g) ==
    IF Abs(g) > ClipNorm THEN (IF g < 0 THEN -ClipNorm ELSE ClipNorm) ELSE g

\* faulty variant: the gradients not cleared
ZeroGradKept(g) == g

\* optimizer.zero_grad()
ZeroGrad(g) == 0

\* one operation on the training state of a process
Exec(s, op) ==
    LET t == [s EXCEPT !.ops = Append(@, op)] IN
    CASE op = "zero_grad" -> [t EXCEPT !.grad = ZeroGrad(@), !.zero = @ + 1]
      [] op = "clip_grad_norm" -> [t EXCEPT !.grad = ClipGradNorm(@), !.clip = @ + 1]
      [] op = "optimizer.step" ->
            [t EXCEPT !.param = @ - s.grad, !.applied = s.grad, !.opt = @ + 1]
      [] op = "scheduler.step" -> [t EXCEPT !.sched = @ + 1]
      [] OTHER -> t

RECURSIVE Run(_, _)
Run(s, block) == IF block = <<>> THEN s ELSE Run(Exec(s, Head(block)), Tail(block))

\* train.py 114: the operation that opens every outer step
BeginBlock == <<"zero_grad">>

\* faulty variant: the clip after the optimizer step
UpdateBlockClipLate == <<"optimizer.step", "clip_grad_norm", "scheduler.step">>

\* train.py 156-158: the operations that follow the round loop
UpdateBlock == <<"clip_grad_norm", "optimizer.step", "scheduler.step">>

\* train.py 214-217: the collectives of a validation pass
ValCollectives == <<"barrier", "all_reduce", "all_reduce", "all_reduce">>

\* DistributedSampler(db, shuffle=True): the permutation of epoch e.
ShufflePerm(e, D) == [k \in 0..(D - 1) |-> (k + e + 1) % D]

DatasetLen == WorldSize * TrainLen

\* the sample rank gpu reads at position pos of its epoch (args.batch = 1)
TrainSample(gpu, e, pos) == ShufflePerm(e, DatasetLen)[gpu + pos * WorldSize]

\* train_loader as built: no pass started, the sampler's epoch 0, and per
\* pass of the loader the samples it has yielded
FreshLoader == [pos |-> 0, epochs |-> 0, sampler_epoch |-> 0, served |-> <<<<>>>>]

\* DistributedSampler(val_db, shuffle=False): the batch rank gpu reads at
\* position v of a validation pass
ValSample(gpu, v) == gpu + v * WorldSize

\* the w2c poses of training sample s
SamplePoses(s) == [i \in Frames |-> 10 * (s + 1) + i]

\* the w2c poses of the validation batch v of rank gpu (shuffle=False)
ValSamplePoses(gpu, v) == [i \in Frames |-> 100 + 10 * (v * WorldSize + gpu) + i]

\* the error metrics of the validation batch v of rank gpu
ValErr(gpu, v) == [rot |-> 1 + gpu + v, tr |-> 2 + gpu * v, f |-> 3 + v]

ZeroErr == [rot |-> 0, tr |-> 0, f |-> 0]

\* faulty variant: the test without total_steps != 0
ValidationDueAtZero(t) == t % ValPeriod = 0

\* total_steps!=0 and total_steps % 5000 == 0
ValidationDue(t) == t # 0 /\ t % ValPeriod = 0

\* faulty variant: the test without gpu == 0
CheckpointDueAnyRank(t, gpu) == t % CkptPeriod = 0

\* total_steps % 10000 == 0 and gpu == 0
CheckpointDue(t, gpu) == t % CkptPeriod = 0 /\ gpu = 0

\* run.id of rank 0's wandb run, and args.name
RunId == "run"
ExpName == "bla"

\* the dictionary checkpoint = {'params', 'model_state_dict',
\* 'optimizer_state_dict', 'scheduler_state_dict'} of the training state s
Checkpoint(a, s) ==
    [params |-> a,
     model_state_dict |-> s.param,
     optimizer_state_dict |-> [step |-> s.opt, exp_avg |-> s.applied],
     scheduler_state_dict |-> [last_epoch |-> s.sched]]

\* PATH = '.../%s_%s_%06d.pth' % (run.id, args.name, total_steps)
CkptPath(run_id, name, t) == <<run_id, name, t>>

\* total_steps >= args.steps
ShouldStop(t, steps) == t >= steps

\* faulty variant: the model left in the mode it is in
ModelTrainSkipped(m) == m

\* model.train() and model.eval(), on the mode of the model
ModelTrain(m) == "train"
ModelEval(m) == "eval"

\* what training carries from one outer step to the next: parameters,
\* gradients, optimizer and scheduler state, their call counts, the counter
\* and the restart-decision generator
TrainingState(s, t, g) ==
    [param |-> s.param, grad |-> s.grad,
     optimizer |-> [step |-> s.opt, exp_avg |-> s.applied],
     scheduler |-> [last_epoch |-> s.sched],
     backward |-> s.backward, total_steps |-> t, rng |-> g]

NoVal == [sum |-> ZeroErr, tensor |-> <<>>, v_batch |-> <<>>, idx |-> 0,
          evaluated |-> 0, modelGraph |-> <<>>, geoGraph |-> <<>>,
          flowGraph |-> <<>>, reported |-> <<>>, passes |-> <<>>,
          before |-> <<>>]

NoTs == [grad |-> 0, param |-> 0, applied |-> 0, zero |-> 0, clip |-> 0,
         opt |-> 0, sched |-> 0, backward |-> 0, ops |-> <<>>]

\* ------------------------------------------------------------- collectives
\* A collective a process has entered returns once every process has entered
\* its collective of the same index and the kinds agree (gloo has no timeout).
CollReady(p) ==
    LET k == Len(calls[p]) IN
    \A q \in Procs : Len(calls[q]) >= k /\ calls[q][k].kind = calls[p][k].kind

\* ReduceOp.SUM over the contributions to collective k
ReduceSum(k) == SumSeq([q \in 1..WorldSize |-> calls[q - 1][k].val])

Enter(p, kind, v) == calls' = [calls EXCEPT ![p] = Append(@, [kind |-> kind, val |-> v])]

\* ---------------------------------------------------------------- initial
\* The state after setup_ddp, the model, loaders, optimizer and scheduler are
\* built (train.py 49-105), at the top of the training loop.
MainInit ==
    /\ cfg \in [restart_prob : RestartProbs, steps : StepChoices]
    /\ valLen = <<>>
    /\ stream = [s \in SeedSet |-> <<>>]
    /\ calls = [p \in Procs |-> <<>>]
    /\ pc = [p \in Procs |-> "fetch"]
    /\ rng = [p \in Procs |-> [seed |-> RngSeed(p), pos |-> 0]]
    /\ r = [p \in Procs |-> 0]
    /\ total_steps = [p \in Procs |-> 0]
    /\ loader = [p \in Procs |-> FreshLoader]
    /\ batch = [p \in Procs |-> -1]
    /\ ts = [p \in Procs |-> NoTs]
    /\ Ps = [p \in Procs |-> <<>>]
    /\ Gs = [p \in Procs |-> <<>>]
    /\ disp0 = [p \in Procs |-> 0]
    /\ graph = [p \in Procs |-> <<>>]
    /\ coin = [p \in Procs |-> FALSE]
    /\ est = [p \in Procs |-> <<>>]
    /\ draws = [p \in Procs |-> <<>>]
    /\ roundGrads = [p \in Procs |-> <<>>]
    /\ rounds = [p \in Procs |-> <<>>]
    /\ lossBound = [p \in Procs |-> FALSE]
    /\ mode = [p \in Procs |-> "train"]
    /\ val = [p \in Procs |-> NoVal]
    /\ valHist = [p \in Procs |-> {}]
    /\ wandbLog = <<>>
    /\ ckpts = <<>>
    /\ run = 0
    /\ args_ckpt = <<>>
    /\ destroyed = [p \in Procs |-> 0]

BuilderIdle == gN = 0 /\ gi = 0 /\ gmode = "idle" /\ ggraph = <<>>

Init == MainInit /\ BuilderIdle

\* The builders run on their own, for every frame count: args.n_frames = N,
\* the rest of train() not started.
GraphInit ==
    /\ MainInit
    /\ cfg = [restart_prob |-> 5, steps |-> 1]
    /\ gN \in 1..MaxN
    /\ gmode \in {"train", "val"}
    /\ gi = 0
    /\ ggraph = <<>>

\* ------------------------------------------------------- the training step
\* for i_batch, item in enumerate(train_loader): the loader is exhausted and
\* the while loop starts a new pass; set_epoch is never called on the sampler.
EpochWrap(p) ==
    /\ pc[p] = "fetch"
    /\ loader[p].pos = TrainLen
    /\ loader' = [loader EXCEPT ![p] = [@ EXCEPT !.pos = 0, !.epochs = @ + 1,
                                                  !.served = Append(@, <<>>)]]
    /\ UNCHANGED <<cfg, valLen, stream, calls, pc, rng, r, batch, draws, rounds,
                   lossBound, optVars, poseVars, graphVars, valVars, outVars,
                   builderVars, runVars>>

\* train.py 113-137: zero_grad, the item, Ps, the graph, the warm start, r = 0
BeginStep(p) ==
    /\ pc[p] = "fetch"
    /\ loader[p].pos < TrainLen
    /\ LET s == TrainSample(p, loader[p].sampler_epoch, loader[p].pos)
           P == SE3Inv(SamplePoses(s))
       IN /\ batch' = [batch EXCEPT ![p] = s]
          /\ Ps' = [Ps EXCEPT ![p] = P]
          /\ Gs' = [Gs EXCEPT ![p] = InitPoses(IdentityLike(P), P)]
    /\ loader' = [loader EXCEPT ![p] =
                    [@ EXCEPT !.pos = @ + 1,
                              !.served[Len(loader[p].served)] =
                                  Append(@, TrainSample(p, loader[p].sampler_epoch,
                                                        loader[p].pos))]]
    /\ ts' = [ts EXCEPT ![p] = Run([@ EXCEPT !.ops = <<>>], BeginBlock)]
    /\ \E c \in BOOLEAN :
          /\ coin' = [coin EXCEPT ![p] = c]
          /\ IF c
             THEN \E h \in HeuristicGraphs(NFrames) : graph' = [graph EXCEPT ![p] = h]
             ELSE graph' = [graph EXCEPT ![p] = TrainWindowGraph(NFrames)]
    /\ disp0' = [disp0 EXCEPT ![p] = InitDisp]
    /\ r' = [r EXCEPT ![p] = 0]
    /\ draws' = [draws EXCEPT ![p] = <<>>]
    /\ roundGrads' = [roundGrads EXCEPT ![p] = <<>>]
    /\ pc' = [pc EXCEPT ![p] = "loop"]
    /\ UNCHANGED <<cfg, valLen, stream, calls, rng, rounds, lossBound,
                   total_steps, est, valVars, outVars, builderVars, runVars>>

\* train.py 138-150: the loop test holds; the draw, the model, the losses and
\* loss.backward(), which enters the gradient all-reduce.
RoundStart(p) ==
    /\ pc[p] = "loop"
    /\ RestartTest(r[p], cfg.restart_prob)
    /\ rng[p].pos < MaxDraws
    /\ LET k == rng[p].pos + 1
           sd == rng[p].seed
       IN \E d \in DrawVals :
            /\ IF Len(stream[sd]) >= k
               THEN d = stream[sd][k] /\ UNCHANGED stream
               ELSE stream' = [stream EXCEPT ![sd] = Append(@, d)]
            /\ r' = [r EXCEPT ![p] = d]
            /\ draws' = [draws EXCEPT ![p] = Append(@, d)]
    /\ rng' = [rng EXCEPT ![p].pos = @ + 1]
    /\ est' = [est EXCEPT ![p] = ModelOutput(Gs[p], disp0[p], Ps[p], FixedP)]
    /\ lossBound' = [lossBound EXCEPT ![p] = TRUE]
    /\ Enter(p, "grad", LocalGrad(batch[p], Len(draws[p])))
    /\ ts' = [ts EXCEPT ![p] = [Exec(@, "backward") EXCEPT !.backward = @ + 1]]
    /\ pc' = [pc EXCEPT ![p] = "backward"]
    /\ UNCHANGED <<cfg, valLen, loader, batch, rounds, roundGrads, total_steps,
                   Ps, Gs, disp0, graphVars, valVars, outVars, builderVars, runVars>>

\* train.py 150-153: backward returns with the synchronized gradient added to
\* .grad; the warm start takes over the model's last estimate.
BackwardDone(p) ==
    /\ pc[p] = "backward"
    /\ CollReady(p)
    /\ LET g == ReduceSum(Len(calls[p]))
       IN /\ ts' = [ts EXCEPT ![p].grad = @ + g]
          /\ roundGrads' = [roundGrads EXCEPT ![p] = Append(@, g)]
    /\ Gs' = [Gs EXCEPT ![p] = est[p].poses]
    /\ disp0' = [disp0 EXCEPT ![p] = est[p].disp]
    /\ pc' = [pc EXCEPT ![p] = "loop"]
    /\ UNCHANGED <<cfg, valLen, stream, calls, trainVars, total_steps, Ps, est,
                   graphVars, valVars, outVars, builderVars, runVars>>

\* train.py 138, 156-176: the loop test fails; clip, optimizer and scheduler
\* step; the training metrics (a NameError when no round ever bound
\* geo_metrics); the validation test, a pass starting with model.eval() and
\* the three sums at 0.0.
FinishRounds(p) ==
    /\ pc[p] = "loop"
    /\ ~RestartTest(r[p], cfg.restart_prob)
    /\ rounds' = [rounds EXCEPT ![p] = Append(@, Len(draws[p]))]
    /\ LET u == Run(ts[p], UpdateBlock)
       IN IF ~lossBound[p]
          THEN /\ ts' = [ts EXCEPT ![p] = u]
               /\ pc' = [pc EXCEPT ![p] = "crashed"]
               /\ UNCHANGED valVars
          ELSE IF ValidationDue(total_steps[p])
          THEN /\ ts' = [ts EXCEPT ![p] = Exec(u, "model.eval")]
               /\ mode' = [mode EXCEPT ![p] = ModelEval(@)]
               /\ val' = [val EXCEPT ![p] = [@ EXCEPT !.sum = ZeroErr, !.idx = 0,
                                                       !.evaluated = 0,
                                                       !.before = <<TrainingState(u, total_steps[p], rng[p])>>,
                                                       !.passes = Append(@, <<>>)]]
               /\ valHist' = [valHist EXCEPT ![p] = @ \cup {total_steps[p]}]
               /\ pc' = [pc EXCEPT ![p] = "vloop"]
          ELSE /\ ts' = [ts EXCEPT ![p] = u]
               /\ pc' = [pc EXCEPT ![p] = "endstep"]
               /\ UNCHANGED valVars
    /\ IF lossBound[p] /\ ValidationDue(total_steps[p]) /\ valLen = <<>>
       THEN \E n \in 0..MaxValLen : valLen' = <<n>>
       ELSE UNCHANGED valLen
    /\ UNCHANGED <<cfg, stream, calls, rng, r, loader, batch, draws,
                   lossBound, roundGrads, total_steps, poseVars, graphVars,
                   outVars, builderVars, runVars>>

\* ------------------------------------------------------ the validation pass
\* the graph each collaborator is given in the validation batch (196-200)
ValModelGraph(g, val_graph) == val_graph
ValGeoGraph(g, val_graph) == g
ValFlowGraph(g, val_graph) == val_graph

\* train.py 178-209: one validation batch
ValBatch(p) ==
    /\ pc[p] = "vloop"
    /\ val[p].idx < valLen[1]
    /\ val[p].idx # ValCap
    /\ LET P == SE3Inv(ValSamplePoses(p, val[p].idx))
           G == InitPoses(IdentityLike(P), P)
           vg == ValWindowGraph(NFrames)
           m == ValErr(p, val[p].idx)
           s == [rot |-> val[p].sum.rot + m.rot,
                 tr |-> val[p].sum.tr + m.tr,
                 f |-> val[p].sum.f + m.f]
       IN /\ Ps' = [Ps EXCEPT ![p] = P]
          /\ Gs' = [Gs EXCEPT ![p] = G]
          /\ disp0' = [disp0 EXCEPT ![p] = InitDisp]
          /\ est' = [est EXCEPT ![p] = ModelOutput(G, InitDisp, P, FixedP)]
          /\ val' = [val EXCEPT ![p] =
                       [@ EXCEPT !.sum = s, !.tensor = <<s>>,
                                 !.v_batch = <<val[p].idx>>,
                                 !.idx = @ + 1, !.evaluated = @ + 1,
                                 !.passes[Len(val[p].passes)] =
                                     Append(@, ValSample(p, val[p].idx)),
                                 !.modelGraph = ValModelGraph(graph[p], vg),
                                 !.geoGraph = ValGeoGraph(graph[p], vg),
                                 !.flowGraph = ValFlowGraph(graph[p], vg)]]
    /\ ts' = [ts EXCEPT ![p] = Exec(@, "val_batch")]
    /\ UNCHANGED <<cfg, valLen, stream, calls, pc, trainVars, roundGrads,
                   total_steps, graphVars, valHist, mode, outVars, builderVars, runVars>>

\* train.py 178-180, 214: the loader is exhausted, or yields batch 500 and the
\* loop breaks; then dist.barrier()
ValBarrier(p) ==
    /\ pc[p] = "vloop"
    /\ val[p].idx >= valLen[1] \/ val[p].idx = ValCap
    /\ val' = [val EXCEPT ![p].v_batch = IF val[p].idx < valLen[1] THEN <<val[p].idx>> ELSE @]
    /\ Enter(p, ValCollectives[1], 0)
    /\ ts' = [ts EXCEPT ![p] = Exec(@, ValCollectives[1])]
    /\ pc' = [pc EXCEPT ![p] = "vbarrier"]
    /\ UNCHANGED <<cfg, valLen, stream, trainVars, roundGrads, total_steps,
                   poseVars, graphVars, valHist, mode, outVars, builderVars, runVars>>

\* train.py 214-215: the barrier returns; all_reduce of the rotation tensor (a
\* NameError when no batch ever bound the tensors)
ValAllReduceRot(p) ==
    /\ pc[p] = "vbarrier"
    /\ CollReady(p)
    /\ IF val[p].tensor = <<>>
       THEN /\ pc' = [pc EXCEPT ![p] = "crashed"]
            /\ UNCHANGED <<calls, ts>>
       ELSE /\ Enter(p, ValCollectives[2], val[p].tensor[1].rot)
            /\ ts' = [ts EXCEPT ![p] = Exec(@, ValCollectives[2])]
            /\ pc' = [pc EXCEPT ![p] = "vrot"]
    /\ UNCHANGED <<cfg, valLen, stream, trainVars, roundGrads, total_steps,
                   poseVars, graphVars, valVars, outVars, builderVars, runVars>>

\* train.py 215-216
ValAllReduceTr(p) ==
    /\ pc[p] = "vrot"
    /\ CollReady(p)
    /\ LET t == [val[p].tensor[1] EXCEPT !.rot = ReduceSum(Len(calls[p]))]
       IN /\ val' = [val EXCEPT ![p].tensor = <<t>>]
          /\ Enter(p, ValCollectives[3], t.tr)
    /\ ts' = [ts EXCEPT ![p] = Exec(@, ValCollectives[3])]
    /\ pc' = [pc EXCEPT ![p] = "vtr"]
    /\ UNCHANGED <<cfg, valLen, stream, trainVars, roundGrads, total_steps,
                   poseVars, graphVars, valHist, mode, outVars, builderVars, runVars>>

\* train.py 216-217
ValAllReduceF(p) ==
    /\ pc[p] = "vtr"
    /\ CollReady(p)
    /\ LET t == [val[p].tensor[1] EXCEPT !.tr = ReduceSum(Len(calls[p]))]
       IN /\ val' = [val EXCEPT ![p].tensor = <<t>>]
          /\ Enter(p, ValCollectives[4], t.f)
    /\ ts' = [ts EXCEPT ![p] = Exec(@, ValCollectives[4])]
    /\ pc' = [pc EXCEPT ![p] = "vf"]
    /\ UNCHANGED <<cfg, valLen, stream, trainVars, roundGrads, total_steps,
                   poseVars, graphVars, valHist, mode, outVars, builderVars, runVars>>

\* val_rot_error /= ((v_batch) * args.world_size): the quotient as a fraction
\* of the local Python sum (the all-reduced tensor is a separate object).
Quotient(localSum, reduced, v_batch) == [num |-> localSum, den |-> v_batch * WorldSize]

\* train.py 217-235: the last all-reduce returns; the three divisions (a
\* ZeroDivisionError when v_batch is 0); rank 0 logs; model.train().  The field
\* sum keeps the local sums of the pass, reported holds the values after /=.
ValReport(p) ==
    /\ pc[p] = "vf"
    /\ CollReady(p)
    /\ LET t == [val[p].tensor[1] EXCEPT !.f = ReduceSum(Len(calls[p]))]
           vb == val[p].v_batch[1]
           rep == [rot |-> Quotient(val[p].sum.rot, t.rot, vb),
                   tr |-> Quotient(val[p].sum.tr, t.tr, vb),
                   f |-> Quotient(val[p].sum.f, t.f, vb)]
       IN IF vb * WorldSize = 0
          THEN /\ val' = [val EXCEPT ![p].tensor = <<t>>]
               /\ pc' = [pc EXCEPT ![p] = "crashed"]
               /\ UNCHANGED <<mode, wandbLog, ts>>
          ELSE /\ val' = [val EXCEPT ![p] = [@ EXCEPT !.tensor = <<t>>,
                                                      !.reported = <<rep>>]]
               /\ wandbLog' = IF p = 0
                              THEN Append(wandbLog, [kind |-> "val",
                                                     step |-> total_steps[p],
                                                     metrics |-> <<rep>>])
                              ELSE wandbLog
               /\ mode' = [mode EXCEPT ![p] = ModelTrain(@)]
               /\ ts' = [ts EXCEPT ![p] = Exec(@, "model.train")]
               /\ pc' = [pc EXCEPT ![p] = "endstep"]
    /\ UNCHANGED <<cfg, valLen, stream, calls, trainVars, roundGrads, total_steps,
                   poseVars, graphVars, valHist, ckpts, builderVars, runVars>>

\* ---------------------------------------------------------- end of the step
\* train.py 237-266: the counter, rank 0's training log, the checkpoint, the
\* stopping test
EndStep(p) ==
    /\ pc[p] = "endstep"
    /\ LET t == total_steps[p] + 1
       IN /\ total_steps' = [total_steps EXCEPT ![p] = t]
          /\ wandbLog' = IF p = 0
                         THEN Append(wandbLog, [kind |-> "train", step |-> t,
                                                metrics |-> <<>>])
                         ELSE wandbLog
          /\ ckpts' = IF CheckpointDue(t, p)
                      THEN Append(ckpts, [rank |-> p,
                                          path |-> CkptPath(RunId, ExpName, t),
                                          file |-> Checkpoint(cfg, ts[p])])
                      ELSE ckpts
          /\ pc' = [pc EXCEPT ![p] = IF ShouldStop(t, cfg.steps) THEN "finish" ELSE "fetch"]
    /\ UNCHANGED <<cfg, valLen, stream, calls, trainVars, ts, roundGrads,
                   poseVars, graphVars, valVars, builderVars, runVars>>

\* faulty variant: the group never destroyed
DestroyProcessGroupSkipped(n) == n

\* dist.destroy_process_group(), on the count of such calls
DestroyProcessGroup(n) == n + 1

\* train.py 267-271: wandb.finish and dist.destroy_process_group()
Teardown(p) ==
    /\ pc[p] = "finish"
    /\ destroyed' = [destroyed EXCEPT ![p] = DestroyProcessGroup(@)]
    /\ pc' = [pc EXCEPT ![p] = "done"]
    /\ UNCHANGED <<cfg, valLen, stream, calls, trainVars, optVars, poseVars,
                   graphVars, valVars, outVars, builderVars, run, args_ckpt>>

\* ------------------------------------------------- a launch with --ckpt
\* the keys train.py 72-75 read from and write to the loaded dictionary
SliceKeys == {"module.update.weight.2.weight", "module.update.weight.2.bias",
              "module.update.delta.2.weight", "module.update.delta.2.bias"}

\* the file torch.load(args.ckpt) reads: the checkpoint written at that path
CkptFile(path) == (CHOOSE k \in DOMAIN ckpts : ckpts[k].path = path)

\* train.py 67-77 on the loaded dictionary: the four slices, each a lookup by
\* key (a KeyError when the key is missing), then model.load_state_dict
LoadStateDict(state_dict) ==
    IF SliceKeys \subseteq DOMAIN state_dict
    THEN [error |-> "", weights |-> <<state_dict>>]
    ELSE [error |-> "KeyError", weights |-> <<>>]

\* train.py 316, 45-57: every process of the previous launch has exited and
\* the program is launched again, --ckpt naming a checkpoint written before.
\* Each process starts train() anew; a generator seeded as before yields the
\* same stream, and the files written stay.
Resume ==
    /\ \A p \in Procs : pc[p] = "done"
    /\ run < MaxResumes
    /\ \E k \in DOMAIN ckpts : args_ckpt' = <<ckpts[k].path>>
    /\ run' = run + 1
    /\ calls' = [p \in Procs |-> <<>>]
    /\ pc' = [p \in Procs |-> "load"]
    /\ rng' = [p \in Procs |-> [seed |-> RngSeed(p), pos |-> 0]]
    /\ r' = [p \in Procs |-> 0]
    /\ total_steps' = [p \in Procs |-> 0]
    /\ loader' = [p \in Procs |-> FreshLoader]
    /\ batch' = [p \in Procs |-> -1]
    /\ ts' = [p \in Procs |-> NoTs]
    /\ Ps' = [p \in Procs |-> <<>>]
    /\ Gs' = [p \in Procs |-> <<>>]
    /\ disp0' = [p \in Procs |-> 0]
    /\ graph' = [p \in Procs |-> <<>>]
    /\ coin' = [p \in Procs |-> FALSE]
    /\ est' = [p \in Procs |-> <<>>]
    /\ draws' = [p \in Procs |-> <<>>]
    /\ roundGrads' = [p \in Procs |-> <<>>]
    /\ rounds' = [p \in Procs |-> <<>>]
    /\ lossBound' = [p \in Procs |-> FALSE]
    /\ mode' = [p \in Procs |-> "train"]
    /\ val' = [p \in Procs |-> NoVal]
    /\ valHist' = [p \in Procs |-> {}]
    /\ destroyed' = [p \in Procs |-> 0]
    /\ UNCHANGED <<cfg, valLen, stream, outVars, builderVars>>

\* train.py 67-100: args.ckpt is not None; the file is read, sliced and given
\* to the model; the optimizer and the scheduler are built new and
\* total_steps = 0, whatever the file holds.
LoadCkpt(p) ==
    /\ pc[p] = "load"
    /\ args_ckpt # <<>>
    /\ LET res == LoadStateDict(ckpts[CkptFile(args_ckpt[1])].file)
       IN IF res.error # ""
          THEN /\ pc' = [pc EXCEPT ![p] = "crashed"]
               /\ UNCHANGED ts
          ELSE /\ pc' = [pc EXCEPT ![p] = "fetch"]
               /\ ts' = [ts EXCEPT ![p] = [NoTs EXCEPT !.param = res.weights[1]]]
    /\ total_steps' = [total_steps EXCEPT ![p] = 0]
    /\ UNCHANGED <<cfg, valLen, stream, calls, trainVars, roundGrads, poseVars,
                   graphVars, valVars, outVars, builderVars, runVars>>

Step(p) ==
    \/ LoadCkpt(p)
    \/ EpochWrap(p)
    \/ BeginStep(p)
    \/ RoundStart(p)
    \/ BackwardDone(p)
    \/ FinishRounds(p)
    \/ ValBatch(p)
    \/ ValBarrier(p)
    \/ ValAllReduceRot(p)
    \/ ValAllReduceTr(p)
    \/ ValAllReduceF(p)
    \/ ValReport(p)
    \/ EndStep(p)
    \/ Teardown(p)

Next == (\E p \in Procs : Step(p)) \/ Resume

Spec == Init /\ [][Next]_vars

\* every spawned process keeps running
FairSpec == Spec /\ \A p \in Procs : WF_vars(Step(p))


\* --------------------------------------------------- the builders, stepwise
mainVars == <<cfg, valLen, stream, calls, pc, trainVars, optVars, poseVars,
              graphVars, valVars, outVars, runVars>>

\* train.py 128-129: one iteration of for i in range(N)
BuildTrainRow ==
    /\ gmode = "train"
    /\ gi < gN
    /\ ggraph' = [k \in 0..gi |-> IF k = gi THEN TrainRow(gi, 0, gN) ELSE ggraph[k]]
    /\ gi' = gi + 1
    /\ UNCHANGED <<mainVars, gN, gmode>>

\* train.py 193-194: one iteration of for i in range(N)
BuildValRow ==
    /\ gmode = "val"
    /\ gi < gN
    /\ ggraph' = [k \in 0..gi |-> IF k = gi THEN ValRow(gi, 0, gN) ELSE ggraph[k]]
    /\ gi' = gi + 1
    /\ UNCHANGED <<mainVars, gN, gmode>>

GraphNext == BuildTrainRow \/ BuildValRow

GraphSpec == GraphInit /\ [][GraphNext]_vars

\* ================================================================== claims
Min(a, b) == IF a < b THEN a ELSE b

Last(s) == s[Len(s)]

InRounds(p) == pc[p] \in {"loop", "backward"}

IsBackward(x) == x = "backward"

IsUpdateOp(x) == x \in {"clip_grad_norm", "optimizer.step", "scheduler.step"}

IsCollective(x) == x \in {"barrier", "all_reduce"}

IsZeroGrad(x) == x = "zero_grad"

SumOverProcs(f(_)) == SumSeq([q \in 1..WorldSize |-> f(q - 1)])

\* C1: in every outer step all processes run the same number of refinement
\* rounds, hence of loss.backward() calls: the round counts of any two
\* processes agree on every outer step both have finished, whatever their
\* ranks, batches and graph-mode coin flips; and each generator has produced
\* exactly one draw per round (per backward call) and none anywhere else.
C1_SameRoundCount ==
    \A p \in Procs :
        /\ \A q \in Procs :
             \A t \in 1..Min(Len(rounds[p]), Len(rounds[q])) :
                 rounds[p][t] = rounds[q][t]
        /\ rng[p].pos = ts[p].backward
        /\ rng[p].pos = SumSeq(rounds[p]) + (IF InRounds(p) THEN Len(draws[p]) ELSE 0)

\* two ranks on different samples, with different coin flips, have both
\* finished a two-round step followed by a one-round step
C1_Witness ==
    \E p, q \in Procs :
        /\ p # q
        /\ coin[p] # coin[q]
        /\ batch[p] # batch[q]
        /\ Len(rounds[p]) >= 2 /\ Len(rounds[q]) >= 2
        /\ rounds[p][1] = 2 /\ rounds[p][2] = 1
        /\ rounds[q][1] = 2 /\ rounds[q][2] = 1

\* C2: the validation metric rank 0 reports for rotation, translation and
\* flow error equals (sum over the processes of their local sums) / (b * w),
\* b the batches each process accumulated (fractions compared by cross
\* multiplication).
C2_ReportedIsReducedMean ==
    (pc[0] = "endstep" /\ total_steps[0] \in valHist[0]) =>
        LET rep == val[0].reported[1]
            b == val[0].evaluated
            Rot(q) == val[q].sum.rot
            Tr(q) == val[q].sum.tr
            Fl(q) == val[q].sum.f
        IN /\ rep.rot.num * (b * WorldSize) = SumOverProcs(Rot) * rep.rot.den
           /\ rep.tr.num * (b * WorldSize) = SumOverProcs(Tr) * rep.tr.den
           /\ rep.f.num * (b * WorldSize) = SumOverProcs(Fl) * rep.f.den

\* C3: each outer step performs exactly one gradient clip, one optimizer step
\* and one scheduler step, in that order and only after all of the step's
\* rounds (no backward follows them), whatever the number of rounds; at the
\* end of every outer step the scheduler steps taken equal the completed-step
\* counter, which never exceeds args.steps.
C3_OneUpdatePerStep ==
    \A p \in Procs :
        LET o == ts[p].ops
            upd == SelectSeq(o, IsUpdateOp)
            k == Len(SelectSeq(o, IsBackward))
        IN /\ upd \in {<<>>, <<"clip_grad_norm", "optimizer.step", "scheduler.step">>}
           /\ upd # <<>> =>
                /\ k = Last(rounds[p])
                /\ \A n \in 1..Len(o) : IsBackward(o[n]) => n <= k + 1
                /\ o[k + 2] = "clip_grad_norm"
                /\ o[k + 3] = "optimizer.step"
                /\ o[k + 4] = "scheduler.step"
           /\ ts[p].clip = ts[p].opt /\ ts[p].opt = ts[p].sched
           /\ ts[p].sched = Len(rounds[p])
           /\ pc[p] \in {"fetch", "finish", "done"} => ts[p].sched = total_steps[p]
           /\ ts[p].sched <= cfg.steps
           /\ total_steps[p] <= cfg.steps

\* a process is back at the top of the loop after a two-round step and a
\* one-round step, with more steps to go
C3_Witness ==
    \E p \in Procs :
        /\ pc[p] = "fetch"
        /\ total_steps[p] = 2
        /\ rounds[p] = <<2, 1>>
        /\ ts[p].sched = 2

\* C4: gradients are cleared exactly once per outer step, before its first
\* round, and never between rounds; the gradient accumulated over the k
\* rounds of an outer step is the sum of that step's k round gradients, with
\* nothing left over from earlier steps or from a validation pass, and it is
\* that sum (clipped) that the optimizer step applies.
C4_GradientIsSumOfRounds ==
    \A p \in Procs :
        LET o == ts[p].ops
        IN /\ ts[p].zero = Len(rounds[p]) + (IF InRounds(p) THEN 1 ELSE 0)
           /\ o # <<>> => /\ o[1] = "zero_grad"
                          /\ Len(SelectSeq(o, IsZeroGrad)) = 1
           /\ InRounds(p) => /\ ts[p].grad = SumSeq(roundGrads[p])
                             /\ Len(roundGrads[p]) =
                                  Len(draws[p]) - (IF pc[p] = "backward" THEN 1 ELSE 0)
           /\ "optimizer.step" \in Range(o) =>
                /\ ts[p].applied = ClipGradNorm(SumSeq(roundGrads[p]))
                /\ Len(roundGrads[p]) = Last(rounds[p])

\* the outer step that follows a validation pass and earlier steps has
\* applied the clipped sum of its own two round gradients, a sum that differs
\* from the gradient of the step before
C4_Witness ==
    \E p \in Procs :
        /\ pc[p] = "endstep"
        /\ valHist[p] # {}
        /\ total_steps[p] \notin valHist[p]
        /\ Len(rounds[p]) = total_steps[p] + 1
        /\ Len(roundGrads[p]) = 2
        /\ ts[p].applied = ClipGradNorm(roundGrads[p][1] + roundGrads[p][2])

\* C5: for restart_prob in (0,1) the first round of every outer step runs
\* unconditionally and round k+1 runs iff the draw of round k is below
\* restart_prob: every finished round loop has at least one round, its last
\* draw is >= restart_prob and all its earlier draws are < restart_prob.
C5_RestartRule ==
    (0 < cfg.restart_prob /\ cfg.restart_prob < 10) =>
        \A p \in Procs :
            /\ \A n \in 1..(Len(draws[p]) - 1) : draws[p][n] < cfg.restart_prob
            /\ (pc[p] = "loop" /\ draws[p] = <<>>) => r[p] < cfg.restart_prob
            /\ (pc[p] = "loop" /\ draws[p] # <<>>) => r[p] = Last(draws[p])
            /\ \A t \in 1..Len(rounds[p]) : rounds[p][t] >= 1
            /\ (~InRounds(p) /\ rounds[p] # <<>>) =>
                  /\ Len(draws[p]) = Last(rounds[p])
                  /\ Last(draws[p]) >= cfg.restart_prob

\* a round loop that continued after a draw below restart_prob and stopped
\* right after the first draw that was not
C5_Witness ==
    \E p \in Procs :
        /\ cfg.restart_prob = 5
        /\ pc[p] = "endstep"
        /\ draws[p] = <<2, 5>>

\* C6: a configuration with restart_prob <= 0 is rejected before any outer
\* step runs: no optimizer step, no scheduler step and no metric emission
\* ever happens.
C6_NonPositiveRejected ==
    cfg.restart_prob <= 0 =>
        /\ \A p \in Procs : ts[p].opt = 0 /\ ts[p].sched = 0
        /\ wandbLog = <<>>

\* C7: after initialization and after every refinement round the warm-start
\* pose at anchor 0 is the ground-truth pose of frame 0 and the pose at
\* anchor 1 the ground-truth pose of frame 1 (the model returning the first
\* two poses unchanged).
C7_AnchorsHoldGroundTruth ==
    \A p \in Procs :
        Gs[p] # <<>> =>
           /\ Gs[p][0] = Ps[p][0]
           /\ Gs[p][1] = Ps[p][1]
           /\ InRounds(p) =>
                /\ Gs[p][0] = SE3Inv(SamplePoses(batch[p]))[0]
                /\ Gs[p][1] = SE3Inv(SamplePoses(batch[p]))[1]

\* after two rounds the model has moved the other poses, the anchors differ
\* from each other, and they still hold the ground truth
C7_Witness ==
    \E p \in Procs :
        /\ pc[p] = "loop"
        /\ Len(draws[p]) = 2
        /\ Gs[p][0] # Gs[p][1]
        /\ Gs[p][3] # Ps[p][1]
        /\ Gs[p][0] = Ps[p][0] /\ Gs[p][1] = Ps[p][1]

WindowSet(i, N) == {j \in 0..(N - 1) : j # i /\ Abs(i - j) <= 2}

\* C8: for every frame count N >= 1 and every frame i the window graph maps i
\* to exactly { j : j # i, |i-j| <= 2, 0 <= j < N } in ascending order: no
\* self-loops, indices in [0,N), symmetric adjacency (N=7: 0 -> 1,2 and
\* 3 -> 1,2,4,5); the training and validation builders give the same rows.
C8_WindowGraph ==
    /\ \A i \in 0..(gi - 1) :
          LET row == ggraph[i]
          IN /\ Range(row) = WindowSet(i, gN)
             /\ \A a, b \in 1..Len(row) : a < b => row[a] < row[b]
             /\ i \notin Range(row)
             /\ Range(row) \subseteq 0..(gN - 1)
             /\ row = TrainRow(i, 0, gN)
             /\ row = ValRow(i, 0, gN)
             /\ \A j \in 0..(gi - 1) : (j \in Range(row)) <=> (i \in Range(ggraph[j]))
    /\ (gN = 7 /\ gi = gN) => ggraph[0] = <<1, 2>> /\ ggraph[3] = <<1, 2, 4, 5>>
    /\ gi = gN => DOMAIN ggraph = 0..(gN - 1)

\* the training builder has finished the graph of seven frames
C8_Witness ==
    /\ gmode = "train"
    /\ gN = 7
    /\ gi = gN
    /\ ggraph[3] = <<1, 2, 4, 5>>
    /\ ggraph[6] = <<4, 5>>

IsWindowGraph(g) ==
    /\ DOMAIN g = Frames
    /\ \A i \in Frames : Range(g[i]) = WindowSet(i, NFrames)

\* C9: in every validation batch the graph given to the model, to the pose
\* (geodesic) loss and to the flow loss is the fixed |i-j| <= 2 window graph.
C9_ValidationUsesWindowGraph ==
    \A p \in Procs :
        val[p].evaluated > 0 =>
           /\ IsWindowGraph(val[p].modelGraph)
           /\ IsWindowGraph(val[p].geoGraph)
           /\ IsWindowGraph(val[p].flowGraph)

ValWaiting(p) == pc[p] \in {"vbarrier", "vrot", "vtr", "vf"}

C10_Safety ==
    \A p \in Procs :
        LET coll == SelectSeq(ts[p].ops, IsCollective)
            order == <<"barrier", "all_reduce", "all_reduce", "all_reduce">>
        IN /\ \A t \in valHist[p] : t # 0 /\ t % ValPeriod = 0 /\ t <= total_steps[p]
           /\ \A t \in 1..(total_steps[p] - 1) : t % ValPeriod = 0 => t \in valHist[p]
           /\ \A q \in Procs :
                \A t \in 0..(Min(total_steps[p], total_steps[q]) - 1) :
                    t \in valHist[p] <=> t \in valHist[q]
           /\ Len(coll) <= 4 /\ coll = SubSeq(order, 1, Len(coll))
           /\ (pc[p] = "endstep" /\ total_steps[p] \in valHist[p]) => coll = order
           /\ (ValWaiting(p) \/ pc[p] = "vloop") => total_steps[p] \in valHist[p]
           /\ coll # <<>> => valHist[p] # {}

NoCrash == \A q \in Procs : pc[q] # "crashed"

\* C10: all processes enter the validation pass in the same outer steps (the
\* completed-step counter a non-zero multiple of the period); in each pass
\* every process runs one barrier then three all-reduces, in that order; and
\* when the validation loaders yield the same non-zero number of batches and
\* no process crashes, no process waits forever at a validation collective:
\* whenever one waits there, the collective can return or a process that has
\* yet to enter it can take its next step (no run ends with a process at a
\* validation collective).
C10_ValidationCollectives ==
    /\ C10_Safety
    /\ (valLen # <<>> /\ valLen[1] >= 1 /\ NoCrash) =>
          \A p \in Procs :
              ValWaiting(p) =>
                 \/ CollReady(p)
                 \/ \E q \in Procs : Len(calls[q]) < Len(calls[p]) /\ ENABLED Step(q)

\* the same under fairness, as a temporal property of FairSpec
C10_EventuallyPast ==
    \A p \in Procs :
        (ValWaiting(p) /\ valLen # <<>> /\ valLen[1] >= 1) ~>
            (~ValWaiting(p) \/ ~NoCrash)

\* a process has left a validation pass, entered at completed-step count
\* ValPeriod, that its peers were in too
C10_Witness ==
    \E p, q \in Procs :
        /\ p # q
        /\ pc[p] = "endstep"
        /\ valHist[p] = {ValPeriod}
        /\ valHist[q] = {ValPeriod}
        /\ total_steps[p] = ValPeriod
        /\ valLen # <<>> /\ valLen[1] >= 1
        /\ SelectSeq(ts[p].ops, IsCollective) =
             <<"barrier", "all_reduce", "all_reduce", "all_reduce">>


\* C11: a checkpoint is written only by rank 0 and only when the
\* just-incremented counter is a positive multiple of the checkpoint period
\* (one write for each such count rank 0 has reached, none by another rank);
\* each snapshot holds hyperparameters, model parameters, optimizer state and
\* scheduler state as they are at the write, and is keyed by run id,
\* experiment name and that count, so the counts of successive keys increase
\* strictly.
C11_CheckpointWrites ==
    /\ \A k \in DOMAIN ckpts :
          LET c == ckpts[k] IN
          /\ c.rank = 0
          /\ c.path = <<RunId, ExpName, k * CkptPeriod>>
          /\ c.path[3] > 0 /\ c.path[3] % CkptPeriod = 0
          /\ run = 0 => c.path[3] <= total_steps[0]
          /\ DOMAIN c.file = {"params", "model_state_dict",
                              "optimizer_state_dict", "scheduler_state_dict"}
          /\ c.file.params = cfg
          /\ c.file.optimizer_state_dict.step = c.path[3]
          /\ c.file.scheduler_state_dict.last_epoch = c.path[3]
          /\ k > 1 => ckpts[k - 1].path[3] < c.path[3]
    /\ run = 0 => Len(ckpts) = total_steps[0] \div CkptPeriod
    /\ (run = 0 /\ Len(ckpts) > 0 /\ total_steps[0] = Last(ckpts).path[3]
          /\ pc[0] \in {"fetch", "finish", "done"}) =>
          Last(ckpts).file.model_state_dict = ts[0].param

\* rank 0 has written two checkpoints, at the counts CkptPeriod and
\* 2 * CkptPeriod, while another rank has passed the same counts
C11_Witness ==
    /\ Len(ckpts) = 2
    /\ ckpts[2].path[3] = 2 * CkptPeriod
    /\ \E q \in Procs : q # 0 /\ total_steps[q] = 2 * CkptPeriod


\* C12: in a launch resumed through --ckpt from a checkpoint written at step
\* S, a process that has finished loading has not failed, and its step
\* counter, optimizer state and scheduler phase start from the values the
\* checkpoint holds (equal to them before its first outer step).
C12_CheckpointRoundTrip ==
    \A p \in Procs :
        (run >= 1 /\ pc[p] # "load") =>
            LET c == ckpts[CkptFile(args_ckpt[1])]
                S == c.path[3]
            IN /\ pc[p] # "crashed"
               /\ total_steps[p] >= S
               /\ (pc[p] = "fetch" /\ total_steps[p] <= S) =>
                     /\ total_steps[p] = S
                     /\ [step |-> ts[p].opt, exp_avg |-> ts[p].applied]
                           = c.file.optimizer_state_dict
                     /\ [last_epoch |-> ts[p].sched] = c.file.scheduler_state_dict


InCollective(q) == pc[q] = "backward" \/ ValWaiting(q)

\* C13: a process destroys the communication group exactly once, and only
\* after its last outer step (the counter at args.steps); once it has, it
\* takes no further step of train(), so it starts no gradient
\* synchronization, barrier or all-reduce; and when a process is about to
\* destroy the group or has destroyed it, every collective another process
\* waits in is one this process has already entered.
C13_TeardownOnceAfterCollectives ==
    \A p \in Procs :
        /\ destroyed[p] <= 1
        /\ destroyed[p] = 1 <=> pc[p] = "done"
        /\ pc[p] \in {"finish", "done"} =>
              /\ total_steps[p] = cfg.steps
              /\ ts[p].opt = cfg.steps
              /\ \A q \in Procs :
                    InCollective(q) =>
                       /\ Len(calls[p]) >= Len(calls[q])
                       /\ calls[p][Len(calls[q])].kind = Last(calls[q]).kind
        /\ pc[p] = "done" => ~ENABLED Step(p)

\* a process has destroyed the group while another is still inside the last
\* gradient synchronization, which the first has entered
C13_Witness ==
    \E p, q \in Procs :
        /\ destroyed[p] = 1
        /\ pc[q] = "backward"
        /\ Len(calls[q]) = Len(calls[p])


\* C14: within a pass of the training loader the samples of different
\* processes are disjoint; every new pass of a process's training loader
\* yields its samples in another order than the pass before; and every
\* validation pass of a process reads the same batches in the same order.
C14_DisjointReshuffled ==
    /\ \A p, q \in Procs : \A e \in DOMAIN loader[p].served :
          (p # q /\ e \in DOMAIN loader[q].served) =>
              Range(loader[p].served[e]) \cap Range(loader[q].served[e]) = {}
    /\ \A p \in Procs : \A e \in DOMAIN loader[p].served :
          (e > 1 /\ Len(loader[p].served[e]) = TrainLen) =>
              loader[p].served[e] # loader[p].served[e - 1]
    /\ \A p \in Procs : \A i, j \in DOMAIN val[p].passes :
          (i < j /\ (j < Len(val[p].passes) \/ pc[p] \notin {"vloop", "crashed"})) =>
              val[p].passes[i] = val[p].passes[j]


FromGroundTruth(G, P) ==
    /\ DOMAIN G = Frames
    /\ G[0] = P[0]
    /\ \A k \in Frames : k >= 1 => G[k] = P[1]

InValidation(p) == pc[p] \in {"vloop", "vbarrier", "vrot", "vtr", "vf"}

\* C15: at the start of every outer step, and in every validation batch, the
\* pose estimate is rebuilt from the ground truth of that batch (frame 0 gets
\* pose 0, every frame k >= 1 gets pose 1) and the inverse depth is 1; inside
\* an outer step each round starts from the output of the round before; and
\* the state an outer step starts from is never the estimate the step before
\* ended with.
C15_ReinitEveryStep ==
    \A p \in Procs :
        /\ (pc[p] = "loop" /\ draws[p] = <<>>) =>
              /\ Ps[p] = [i \in Frames |-> -SamplePoses(batch[p])[i]]
              /\ FromGroundTruth(Gs[p], Ps[p])
              /\ disp0[p] = 1
              /\ est[p] # <<>> => (Gs[p] # est[p].poses /\ disp0[p] # est[p].disp)
        /\ (InValidation(p) /\ val[p].evaluated > 0) =>
              /\ Ps[p] = [i \in Frames |-> -ValSamplePoses(p, val[p].idx - 1)[i]]
              /\ FromGroundTruth(Gs[p], Ps[p])
              /\ disp0[p] = 1
              /\ est[p] = ModelOutput(Gs[p], 1, Ps[p], FixedP)
        /\ (pc[p] = "loop" /\ draws[p] # <<>>) =>
              (Gs[p] = est[p].poses /\ disp0[p] = est[p].disp)
        /\ pc[p] = "backward" => est[p] = ModelOutput(Gs[p], disp0[p], Ps[p], FixedP)

\* an outer step starts right after a validation pass that evaluated a batch,
\* the step before it having run two rounds
C15_Witness ==
    \E p \in Procs :
        /\ pc[p] = "loop" /\ draws[p] = <<>>
        /\ total_steps[p] - 1 \in valHist[p]
        /\ val[p].evaluated > 0
        /\ Last(rounds[p]) = 2


AtDrawCap(q) ==
    pc[q] = "loop" /\ RestartTest(r[q], cfg.restart_prob) /\ rng[q].pos >= MaxDraws

\* C16: with restart_prob in (0,1) and steps >= 1, the step counter never
\* exceeds steps and counts the optimizer updates one by one; a process that
\* has left the training loop has performed exactly steps outer steps; and
\* every process leaves the loop: a run in which every round loop met a draw
\* >= restart_prob cannot end with a process that has not left it.
C16_LeavesLoopAfterSteps ==
    (0 < cfg.restart_prob /\ cfg.restart_prob < 10 /\ cfg.steps >= 1 /\ run = 0) =>
        \A p \in Procs :
            /\ total_steps[p] <= cfg.steps
            /\ total_steps[p] <= ts[p].opt /\ ts[p].opt <= total_steps[p] + 1
            /\ pc[p] \in {"finish", "done"} =>
                  (total_steps[p] = cfg.steps /\ ts[p].opt = cfg.steps)
            /\ ((~ENABLED Next) /\ \A q \in Procs : ~AtDrawCap(q)) => pc[p] = "done"


\* C17: when the validation loader yields B >= 1 batches, a process that has
\* left the validation loop has evaluated exactly min(B, cap) batches, one
\* model call each, and the batch count v_batch it divides its sums by equals
\* that number.
C17_DivisorIsBatchCount ==
    \A p \in Procs :
        (ValWaiting(p) /\ valLen[1] >= 1) =>
            /\ val[p].evaluated = Min(valLen[1], ValCap)
            /\ Len(Last(val[p].passes)) = val[p].evaluated
            /\ Cardinality({k \in DOMAIN ts[p].ops : ts[p].ops[k] = "val_batch"})
                  = val[p].evaluated
            /\ val[p].v_batch = <<val[p].evaluated>>


\* C18: for restart_prob <= 0 every round loop performs zero rounds: no
\* draw from the restart generator, no model invocation, no loss computed,
\* no backward call and no gradient synchronization ever happen.
C18_ZeroRounds ==
    cfg.restart_prob <= 0 =>
        /\ \A sd \in DOMAIN stream : stream[sd] = <<>>
        /\ \A p \in Procs :
              /\ draws[p] = <<>> /\ rng[p].pos = 0
              /\ est[p] = <<>>
              /\ ~lossBound[p]
              /\ ts[p].backward = 0 /\ "backward" \notin Range(ts[p].ops)
              /\ calls[p] = <<>>
              /\ roundGrads[p] = <<>>
              /\ pc[p] # "backward"
              /\ \A k \in DOMAIN rounds[p] : rounds[p][k] = 0

\* with restart_prob <= 0 a process has run through the round loop of its
\* first outer step
C18_Witness ==
    \E p \in Procs :
        /\ cfg.restart_prob <= 0
        /\ rounds[p] = <<0>>
        /\ "zero_grad" \in Range(ts[p].ops)


AfterValidation(p) == pc[p] = "endstep" /\ total_steps[p] \in valHist[p]

\* C19: throughout a validation pass and when it has ended, the model
\* parameters, the accumulated gradients, the optimizer and scheduler state,
\* the step counter and the restart-decision generator are what they were
\* when the pass began; the pass runs no backward call and no optimizer or
\* scheduler step; the model is in evaluation mode inside the pass and back
\* in training mode when the pass has ended.
C19_ValidationLeavesTraining ==
    \A p \in Procs :
        /\ (InValidation(p) \/ AfterValidation(p)) =>
              /\ val[p].before = <<TrainingState(ts[p], total_steps[p], rng[p])>>
              /\ \A k \in DOMAIN ts[p].ops :
                    (\E j \in 1..(k - 1) : ts[p].ops[j] = "model.eval") =>
                        /\ ~IsBackward(ts[p].ops[k])
                        /\ ~IsUpdateOp(ts[p].ops[k])
                        /\ ~IsZeroGrad(ts[p].ops[k])
        /\ InValidation(p) => mode[p] = "eval"
        /\ (AfterValidation(p) \/ ~(InValidation(p) \/ pc[p] = "crashed")) =>
              mode[p] = "train"

\* a validation pass that evaluated two batches has ended and the process is
\* about to count the step
C19_Witness ==
    \E p \in Procs :
        /\ AfterValidation(p)
        /\ val[p].evaluated = 2
        /\ val[p].reported # <<>>
        /\ ts[p].ops[Len(ts[p].ops)] = "model.train"

=============================================================================
